---- MODULE Spec2Model ----
(***************************************************************************)
(* A model of the kyoto light-client node: the event loop of Node::run,    *)
(* its handlers, the phase machine NodeState, peer selection, and the      *)
(* collaborators the loop drives (Chain, PeerMap, the peer store, the      *)
(* peer sessions and the client).                                          *)
(***************************************************************************)
EXTENDS Integers, Sequences, FiniteSets, TLC

(***************************************************************************)
(* Bounds of the model.                                                    *)
(***************************************************************************)
\* heights above the anchor checkpoint that the header chain may reach
MaxHeight == 1
\* session nonces the PeerMap may hand out at one time
MaxPeers == 2
\* events the peer-event channel holds in the model (the code's channel holds 32)
MaxInFlight == 1
\* largest value given to NodeBuilder::num_required_peers
MaxRequiredPeers == 2
\* events the client-event channel holds in the model (the code's channel holds 32)
MaxUnread == 3
\* calls made on a NodeBuilder before build_node
MaxCalls == 3
\* largest number of peers that must agree on a filter header
MaxQuorum == 2
\* greatest height of a chain loaded from the header store
MaxLoaded == 2
\* messages the reader of the followed session reads from the remote
MaxWire == 4
\* commands the request channel of the followed session holds in the model
MaxRequests == 1
\* largest height given to anchor_checkpoint and to filter_startpoint
MaxStartHeight == 3
\* bits of a height in the model (the i32 and u32 of the code have 32)
HeightBits == 3

Nonces == 1..MaxPeers
Heights == 0..MaxHeight

(***************************************************************************)
(* NodeState, in the order of the enum.                                    *)
(***************************************************************************)
NodeState ==
    <<"Behind", "HeadersSynced", "FilterHeadersSynced", "FiltersSynced",
      "TransactionsSynced">>

NodeStates == {NodeState[i] : i \in 1..Len(NodeState)}

\* position of a state in the enum
Rank(s) == CHOOSE i \in 1..Len(NodeState) : NodeState[i] = s

(***************************************************************************)
(* Messages.                                                               *)
(***************************************************************************)
\* PeerMessage variants a session forwards to the Node
PeerMessage ==
    {"Version", "Addr", "Headers", "FilterHeaders", "Filter", "Block",
     "NewBlocks", "Disconnect"}

\* What the channel records of an undelivered event: Disconnect, after which the
\* session has left its loop, or any other variant.  Nothing reads the variant
\* and the payload of an event before the match in run, where they are drawn:
\* every variant that run matches can arrive.
InFlight == {"Data", "Disconnect"}

\* how the channel records a PeerMessage
Carried(message) == IF message = "Disconnect" THEN "Disconnect" ELSE "Data"

\* ServiceFlags the handlers look at
ServiceFlags == {"NETWORK", "COMPACT_FILTERS"}

\* Option<MainThreadMessage>::None
NoMessage == "None"

FilterSyncPolicy == {"Continue", "Halt"}

\* the preferred peers given to the builder
TrustedPeers == <<"w1", "w2">>

VARIABLES
    pc,                 \* position of Node::run
    state,              \* Node.state
    chain,              \* Node.chain
    best_known_height,  \* Node.best_known_height
    required_peers,     \* Node.required_peers
    white_list,         \* Node.white_list
    node_map,           \* the PeerMap of run: nonce -> session
    mrx,                \* the peer-event channel of run
    config,             \* the NodeConfig the builder produced
    client,             \* commands the client has issued
    requested,          \* blocks asked of a peer with GetBlock, not yet scanned
    contributed,        \* nonces whose FilterHeaders agree on the next filter header
    nrx,                \* client events sent and not yet received by the client
    receiver,           \* how the client reads its events: "prompt" or "lagging"
    calls,              \* the builder calls made while the builder is followed
    session,            \* one peer session, while Peer::connect is followed
    sent,               \* commands the last step delivered to sessions
    emitted,            \* client events the last step emitted
    last_op,            \* what the last step did
    run_result          \* what run returned

vars ==
    <<pc, state, chain, best_known_height, required_peers, white_list, node_map,
      mrx, config, client, requested, contributed, nrx, receiver, calls, session,
      sent, emitted, last_op, run_result>>

(***************************************************************************)
(* Chain: the predicates and requests the Node reads.                      *)
(***************************************************************************)
\* Option<u32>::None: no peer has told its height yet
NoHeight == -1

is_synced(c) == c.best_known_height # NoHeight /\ c.tip >= c.best_known_height

is_cf_headers_synced(c) == c.cf_headers >= c.tip

is_filters_synced(c) == c.filters >= c.tip

block_queue_empty(c) == c.block_queue = <<>>

\* Option<request>: Some while filter headers are missing
next_cf_header_message(c) == IF c.cf_headers < c.tip THEN "Some" ELSE "None"

\* Option<request>: Some while filters are missing
next_filter_message(c) == IF c.filters < c.tip THEN "Some" ELSE "None"

\* the chain as loaded by Chain::new: one attestation records a filter header,
\* and no peer has attested the next one
LoadedChain ==
    [tip |-> 0, best_known_height |-> NoHeight, cf_headers |-> 0, filters |-> 0,
     block_queue |-> <<>>, quorum |-> 1, attested |-> {}]

\* the header batches a peer can send, by what sync_chain makes of them
HeaderBatches(c) ==
    {"empty", "invalid"}
        \cup (IF c.tip < MaxHeight THEN {"extend"} ELSE {})
        \cup (IF c.tip > 0 THEN {"reorg", "known"} ELSE {})

\* Chain::sync_chain: an empty batch and an invalid batch are errors; an
\* extending batch appends one header; a batch of headers the chain holds
\* already is accepted and changes nothing; a reorg rewinds one block, truncates the
\* filter headers, the filters and the block queue to the fork height and
\* appends the competing header; the attestations of the filter header of the
\* replaced block are dropped
sync_chain(c, headers) ==
    CASE headers = "empty" -> [result |-> "EmptyMessage", chain |-> c]
      [] headers = "invalid" -> [result |-> "InvalidHeader", chain |-> c]
      [] headers = "extend" -> [result |-> "Ok", chain |-> [c EXCEPT !.tip = c.tip + 1]]
      [] headers = "known" -> [result |-> "Ok", chain |-> c]
      [] headers = "reorg" ->
            LET fork == c.tip - 1 IN
            [result |-> "Ok",
             chain |-> [c EXCEPT
                !.cf_headers = IF c.cf_headers < fork THEN c.cf_headers ELSE fork,
                !.filters = IF c.filters < fork THEN c.filters ELSE fork,
                !.block_queue = SelectSeq(c.block_queue, LAMBDA h : h <= fork),
                !.attested = {}]]

\* the filter-header batches a peer can send
CFHeaderBatches == {"agreeing", "conflicting"}

\* Chain::sync_cf_headers: a conflicting batch is an error; an agreeing batch
\* counts its peer among those that attested the next filter header, which is
\* recorded once `quorum` distinct peers attested it; the answer is the next
\* request, if any
sync_cf_headers(c, peer_id, cf_headers) ==
    IF cf_headers = "conflicting"
    THEN [result |-> "Err", chain |-> c, message |-> "None"]
    ELSE LET attested == c.attested \cup {peer_id}
             next == IF c.cf_headers >= c.tip
                     THEN c
                     ELSE IF Cardinality(attested) >= c.quorum
                     THEN [c EXCEPT !.cf_headers = c.cf_headers + 1, !.attested = {}]
                     ELSE [c EXCEPT !.attested = attested]
         IN [result |-> "Ok", chain |-> next, message |-> next_cf_header_message(next)]

\* the filters a peer can send: one whose hash differs from the recorded filter
\* hash, or (when a filter header is recorded for the next height) one that
\* matches it, with or without a watched script in it
Filters(c) ==
    {"mismatch"}
        \cup (IF c.filters < c.cf_headers THEN {"script_match", "no_match"} ELSE {})

\* Chain::sync_filter: a mismatching filter is an error; a matching one is
\* indexed, its block hash is enqueued when a script matches, and the answer is
\* the next request, if any
sync_filter(c, filter) ==
    IF filter = "mismatch"
    THEN [result |-> "Err", chain |-> c, message |-> "None"]
    ELSE LET h == c.filters + 1
             next == [c EXCEPT
                !.filters = h,
                !.block_queue = IF filter = "script_match"
                                THEN Append(c.block_queue, h)
                                ELSE c.block_queue]
         IN [result |-> "Ok", chain |-> next, message |-> next_filter_message(next)]

\* Option<BlockHash>::None
NoBlock == 0

\* Chain::next_block: takes the head of the block queue
next_block(c) ==
    IF c.block_queue = <<>>
    THEN [block_hash |-> NoBlock, chain |-> c]
    ELSE [block_hash |-> Head(c.block_queue),
          chain |-> [c EXCEPT !.block_queue = Tail(c.block_queue)]]

\* Chain::set_best_known_height
set_best_known_height(c, height) == [c EXCEPT !.best_known_height = height]

(***************************************************************************)
(* PeerMap: sessions by nonce.                                             *)
(***************************************************************************)
SessionStatus == {"None", "Handshaking", "Ready", "Closed"}

NoSession == [status |-> "None", services |-> {}]

\* sessions whose task is running
Open(m) == {n \in Nonces : m[n].status \in {"Handshaking", "Ready"}}

\* PeerMap::live
live(m) == Cardinality({n \in Nonces : m[n].status = "Ready"})

\* PeerMap::clean
clean(m) == [n \in Nonces |-> IF m[n].status = "Closed" THEN NoSession ELSE m[n]]

\* PeerMap::dispatch: a new session under an unused nonce; with every nonce in
\* use the connection attempt ends before the map is read again
dispatch(m) ==
    LET free == {n \in Nonces : m[n].status = "None"} IN
    IF free = {} THEN m
    ELSE LET n == CHOOSE x \in free : \A y \in free : x <= y
         IN [m EXCEPT ![n] = [status |-> "Handshaking", services |-> {}]]

\* PeerMap::set_services: the session's version is known, it is ready; of the
\* flags the map reads NETWORK only
set_services(m, nonce, flags) ==
    IF nonce \in Open(m)
    THEN [m EXCEPT ![nonce] = [status |-> "Ready", services |-> flags \cap {"NETWORK"}]]
    ELSE m

\* the commands that reach the sessions `to`, and the map once they did:
\* a session that reads Disconnect leaves its loop
deliver(m, to, message) ==
    [map |-> [n \in Nonces |->
                IF n \in to /\ message = "Disconnect"
                THEN [status |-> "Closed", services |-> {}]
                ELSE m[n]],
     sent |-> {[to |-> n, message |-> message] : n \in to}]

\* PeerMap::send_message
send_message(m, nonce, message) == deliver(m, {nonce} \cap Open(m), message)

\* PeerMap::broadcast
broadcast(m, message) ==
    deliver(m, {n \in Nonces : m[n].status = "Ready"}, message)

\* the sessions PeerMap::send_random chooses among
RandomTargets(m) ==
    {n \in Nonces : m[n].status = "Ready" /\ "NETWORK" \in m[n].services}

(***************************************************************************)
(* Node: client events.                                                    *)
(***************************************************************************)
\* NodeMessage::Dialog, as send_dialog sends it
Dialog(text) == [type |-> "Dialog", text |-> text]

\* NodeMessage::Warning, as send_warning sends it
Warning(text) == [type |-> "Warning", text |-> text]

\* NodeMessage::Synced
Synced == [type |-> "Synced", text |-> ""]

(***************************************************************************)
(* Node: the phase machine.                                                *)
(***************************************************************************)
\* advance_state leaves the phase as it is
Stays(st) == [state |-> st, flushed |-> FALSE, emitted |-> <<>>]

\* advance_state moves to the phase `next`, telling the client `event`
Advances(next, flushed, event) ==
    [state |-> next, flushed |-> flushed, emitted |-> <<event>>]

\* advance_state, were the Behind arm to go on to FilterHeadersSynced
advance_state_skipping(st, c) ==
    CASE st = "Behind" ->
            IF is_synced(c)
            THEN Advances("FilterHeadersSynced", TRUE, Dialog("Headers synced"))
            ELSE Stays(st)
      [] st = "HeadersSynced" ->
            IF is_cf_headers_synced(c)
            THEN Advances("FilterHeadersSynced", FALSE, Dialog("CF Headers synced"))
            ELSE Stays(st)
      [] st = "FilterHeadersSynced" ->
            IF is_filters_synced(c)
            THEN Advances("FiltersSynced", FALSE, Dialog("Filters synced"))
            ELSE Stays(st)
      [] st = "FiltersSynced" ->
            IF block_queue_empty(c)
            THEN Advances("TransactionsSynced", FALSE, Synced)
            ELSE Stays(st)
      [] st = "TransactionsSynced" -> Stays(st)

\* advance_state, were the TransactionsSynced arm to send Synced as well
advance_state_resending(st, c) ==
    CASE st = "Behind" ->
            IF is_synced(c)
            THEN Advances("HeadersSynced", TRUE, Dialog("Headers synced"))
            ELSE Stays(st)
      [] st = "HeadersSynced" ->
            IF is_cf_headers_synced(c)
            THEN Advances("FilterHeadersSynced", FALSE, Dialog("CF Headers synced"))
            ELSE Stays(st)
      [] st = "FilterHeadersSynced" ->
            IF is_filters_synced(c)
            THEN Advances("FiltersSynced", FALSE, Dialog("Filters synced"))
            ELSE Stays(st)
      [] st = "FiltersSynced" ->
            IF block_queue_empty(c)
            THEN Advances("TransactionsSynced", FALSE, Synced)
            ELSE Stays(st)
      [] st = "TransactionsSynced" ->
            IF block_queue_empty(c)
            THEN Advances(st, FALSE, Synced)
            ELSE Stays(st)

\* advance_state, were the FiltersSynced arm to wait for a block in the queue
advance_state_stalling(st, c) ==
    CASE st = "Behind" ->
            IF is_synced(c)
            THEN Advances("HeadersSynced", TRUE, Dialog("Headers synced"))
            ELSE Stays(st)
      [] st = "HeadersSynced" ->
            IF is_cf_headers_synced(c)
            THEN Advances("FilterHeadersSynced", FALSE, Dialog("CF Headers synced"))
            ELSE Stays(st)
      [] st = "FilterHeadersSynced" ->
            IF is_filters_synced(c)
            THEN Advances("FiltersSynced", FALSE, Dialog("Filters synced"))
            ELSE Stays(st)
      [] st = "FiltersSynced" ->
            IF ~block_queue_empty(c)
            THEN Advances("TransactionsSynced", FALSE, Synced)
            ELSE Stays(st)
      [] st = "TransactionsSynced" -> Stays(st)

\* Node::advance_state: at most one phase forward, by the chain's predicates;
\* the chain is flushed on leaving Behind only
advance_state(st, c) ==
    CASE st = "Behind" ->
            IF is_synced(c)
            THEN Advances("HeadersSynced", TRUE, Dialog("Headers synced"))
            ELSE Stays(st)
      [] st = "HeadersSynced" ->
            IF is_cf_headers_synced(c)
            THEN Advances("FilterHeadersSynced", FALSE, Dialog("CF Headers synced"))
            ELSE Stays(st)
      [] st = "FilterHeadersSynced" ->
            IF is_filters_synced(c)
            THEN Advances("FiltersSynced", FALSE, Dialog("Filters synced"))
            ELSE Stays(st)
      [] st = "FiltersSynced" ->
            IF block_queue_empty(c)
            THEN Advances("TransactionsSynced", FALSE, Synced)
            ELSE Stays(st)
      [] st = "TransactionsSynced" -> Stays(st)

\* Node::next_required_peers
next_required_peers(st, required) == IF st = "Behind" THEN 1 ELSE required

(***************************************************************************)
(* Node: the event handlers.                                               *)
(***************************************************************************)
\* the Version payloads a peer can send to a node whose chain is `c`: its
\* height is any the chain can reach
Versions(c) == [service_flags : SUBSET ServiceFlags, height : Heights \cup {c.tip}]

\* the version messages of peers that advertise a negative height: the least
\* and the greatest
SignedVersions ==
    [service_flags : SUBSET ServiceFlags, height : {-(2^(HeightBits - 1)), -1}]

\* `height as u32`: the bits of the signed height read as an unsigned value
as_u32(height) == height % 2^HeightBits

\* handle_version, were it to compare the height as the peer sent it
handle_version_signed(st, best, c, version_message) ==
    IF st # "Behind"
        /\ ("COMPACT_FILTERS" \notin version_message.service_flags
            \/ "NETWORK" \notin version_message.service_flags)
    THEN [response |-> "Disconnect", best_known_height |-> best, chain |-> c,
          emitted |-> <<Warning("peer does not serve compact filters or blocks")>>]
    ELSE LET peer_height == version_message.height IN
         IF peer_height >= best
         THEN [response |-> "GetHeaders", best_known_height |-> peer_height,
               chain |-> set_best_known_height(c, peer_height), emitted |-> <<>>]
         ELSE [response |-> "GetHeaders", best_known_height |-> best, chain |-> c,
               emitted |-> <<>>]

\* handle_version, were it to ask for compact filters only
handle_version_filters_only(st, best, c, version_message) ==
    IF st # "Behind" /\ "COMPACT_FILTERS" \notin version_message.service_flags
    THEN [response |-> "Disconnect", best_known_height |-> best, chain |-> c,
          emitted |-> <<Warning("peer does not serve compact filters or blocks")>>]
    ELSE LET peer_height == as_u32(version_message.height) IN
         IF peer_height >= best
         THEN [response |-> "GetHeaders", best_known_height |-> peer_height,
               chain |-> set_best_known_height(c, peer_height), emitted |-> <<>>]
         ELSE [response |-> "GetHeaders", best_known_height |-> best, chain |-> c,
               emitted |-> <<>>]

\* Node::handle_version
handle_version(st, best, c, version_message) ==
    IF st # "Behind"
        /\ ("COMPACT_FILTERS" \notin version_message.service_flags
            \/ "NETWORK" \notin version_message.service_flags)
    THEN [response |-> "Disconnect", best_known_height |-> best, chain |-> c,
          emitted |-> <<Warning("peer does not serve compact filters or blocks")>>]
    ELSE LET peer_height == as_u32(version_message.height) IN
         IF peer_height >= best
         THEN [response |-> "GetHeaders", best_known_height |-> peer_height,
               chain |-> set_best_known_height(c, peer_height), emitted |-> <<>>]
         ELSE [response |-> "GetHeaders", best_known_height |-> best, chain |-> c,
               emitted |-> <<>>]

\* Node::handle_new_addrs, by the result of add_cpf_peers
handle_new_addrs(add_result) ==
    IF add_result = "Err"
    THEN <<Warning("error adding peer to persistence")>>
    ELSE <<>>

\* a handler that does not return: an unwrap found None
Panic == "Panic"

\* Option::unwrap on the request the Chain gives, which `command` carries
unwrap(message, command) == IF message = "None" THEN Panic ELSE command

\* handle_headers, were it to ask an unsynced peer again after an empty batch
handle_headers_asking_again(c, headers) ==
    LET synced == sync_chain(c, headers)
        guard == synced.chain
    IN  IF synced.result = "EmptyMessage"
        THEN IF ~is_synced(guard)
             THEN [response |-> "GetHeaders", chain |-> guard, emitted |-> <<>>]
             ELSE IF ~is_cf_headers_synced(guard)
             THEN [response |-> unwrap(next_cf_header_message(guard), "GetFilterHeaders"),
                   chain |-> guard, emitted |-> <<>>]
             ELSE [response |-> NoMessage, chain |-> guard, emitted |-> <<>>]
        ELSE IF synced.result # "Ok"
        THEN [response |-> "Disconnect", chain |-> guard,
              emitted |-> <<Warning("unexpected header syncing error")>>]
        ELSE IF ~is_synced(guard)
        THEN [response |-> "GetHeaders", chain |-> guard, emitted |-> <<>>]
        ELSE IF ~is_cf_headers_synced(guard)
        THEN [response |-> unwrap(next_cf_header_message(guard), "GetFilterHeaders"),
              chain |-> guard, emitted |-> <<>>]
        ELSE IF ~is_filters_synced(guard)
        THEN [response |-> unwrap(next_filter_message(guard), "GetFilters"),
              chain |-> guard, emitted |-> <<>>]
        ELSE [response |-> NoMessage, chain |-> guard, emitted |-> <<>>]

\* handle_headers, were it to ask for filters before filter headers
handle_headers_filters_first(c, headers) ==
    LET synced == sync_chain(c, headers)
        guard == synced.chain
    IN  IF synced.result = "EmptyMessage"
        THEN IF ~is_synced(guard)
             THEN [response |-> "Disconnect", chain |-> guard, emitted |-> <<>>]
             ELSE IF ~is_cf_headers_synced(guard)
             THEN [response |-> unwrap(next_cf_header_message(guard), "GetFilterHeaders"),
                   chain |-> guard, emitted |-> <<>>]
             ELSE [response |-> NoMessage, chain |-> guard, emitted |-> <<>>]
        ELSE IF synced.result # "Ok"
        THEN [response |-> "Disconnect", chain |-> guard,
              emitted |-> <<Warning("unexpected header syncing error")>>]
        ELSE IF ~is_synced(guard)
        THEN [response |-> "GetHeaders", chain |-> guard, emitted |-> <<>>]
        ELSE IF ~is_filters_synced(guard)
        THEN [response |-> unwrap(next_filter_message(guard), "GetFilters"),
              chain |-> guard, emitted |-> <<>>]
        ELSE IF ~is_cf_headers_synced(guard)
        THEN [response |-> unwrap(next_cf_header_message(guard), "GetFilterHeaders"),
              chain |-> guard, emitted |-> <<>>]
        ELSE [response |-> NoMessage, chain |-> guard, emitted |-> <<>>]

\* Node::handle_headers
handle_headers(c, headers) ==
    LET synced == sync_chain(c, headers)
        guard == synced.chain
    IN  IF synced.result = "EmptyMessage"
        THEN IF ~is_synced(guard)
             THEN [response |-> "Disconnect", chain |-> guard, emitted |-> <<>>]
             ELSE IF ~is_cf_headers_synced(guard)
             THEN [response |-> unwrap(next_cf_header_message(guard), "GetFilterHeaders"),
                   chain |-> guard, emitted |-> <<>>]
             ELSE [response |-> NoMessage, chain |-> guard, emitted |-> <<>>]
        ELSE IF synced.result # "Ok"
        THEN [response |-> "Disconnect", chain |-> guard,
              emitted |-> <<Warning("unexpected header syncing error")>>]
        ELSE IF ~is_synced(guard)
        THEN [response |-> "GetHeaders", chain |-> guard, emitted |-> <<>>]
        ELSE IF ~is_cf_headers_synced(guard)
        THEN [response |-> unwrap(next_cf_header_message(guard), "GetFilterHeaders"),
              chain |-> guard, emitted |-> <<>>]
        ELSE IF ~is_filters_synced(guard)
        THEN [response |-> unwrap(next_filter_message(guard), "GetFilters"),
              chain |-> guard, emitted |-> <<>>]
        ELSE [response |-> NoMessage, chain |-> guard, emitted |-> <<>>]

\* handle_cf_headers, were it to number the batches it passes to
\* sync_cf_headers instead of naming their peer
handle_cf_headers_numbering(c, peer_id, cf_headers) ==
    LET synced == sync_cf_headers(c, Cardinality(c.attested) + 1, cf_headers)
        guard == synced.chain
    IN  IF synced.result = "Ok"
        THEN IF synced.message # "None"
             THEN [response |-> "GetFilterHeaders", chain |-> guard, emitted |-> <<>>]
             ELSE IF ~is_filters_synced(guard)
             THEN [response |-> unwrap(next_filter_message(guard), "GetFilters"),
                   chain |-> guard, emitted |-> <<>>]
             ELSE [response |-> NoMessage, chain |-> guard, emitted |-> <<>>]
        ELSE [response |-> "Disconnect", chain |-> guard,
              emitted |-> <<Warning("compact filter header syncing error")>>]

\* handle_cf_headers, were it to unwrap the next filter request without asking
\* whether the filters are synced
handle_cf_headers_unwrapping(c, peer_id, cf_headers) ==
    LET synced == sync_cf_headers(c, peer_id, cf_headers)
        guard == synced.chain
    IN  IF synced.result = "Ok"
        THEN IF synced.message # "None"
             THEN [response |-> "GetFilterHeaders", chain |-> guard, emitted |-> <<>>]
             ELSE [response |-> unwrap(next_filter_message(guard), "GetFilters"),
                   chain |-> guard, emitted |-> <<>>]
        ELSE [response |-> "Disconnect", chain |-> guard,
              emitted |-> <<Warning("compact filter header syncing error")>>]

\* Node::handle_cf_headers
handle_cf_headers(c, peer_id, cf_headers) ==
    LET synced == sync_cf_headers(c, peer_id, cf_headers)
        guard == synced.chain
    IN  IF synced.result = "Ok"
        THEN IF synced.message # "None"
             THEN [response |-> "GetFilterHeaders", chain |-> guard, emitted |-> <<>>]
             ELSE IF ~is_filters_synced(guard)
             THEN [response |-> unwrap(next_filter_message(guard), "GetFilters"),
                   chain |-> guard, emitted |-> <<>>]
             ELSE [response |-> NoMessage, chain |-> guard, emitted |-> <<>>]
        ELSE [response |-> "Disconnect", chain |-> guard,
              emitted |-> <<Warning("compact filter header syncing error")>>]

\* Node::handle_filter
handle_filter(c, peer_id, filter) ==
    LET synced == sync_filter(c, filter)
        guard == synced.chain
    IN  IF synced.result = "Ok"
        THEN IF synced.message # "None"
             THEN [response |-> "GetFilters", chain |-> guard, emitted |-> <<>>]
             ELSE [response |-> NoMessage, chain |-> guard, emitted |-> <<>>]
        ELSE [response |-> "Disconnect", chain |-> guard,
              emitted |-> <<Warning("compact filter syncing error")>>]

\* the Block payloads a peer can send to a node whose chain is `c`: the
\* block's height, and whether Chain::scan_block accepts it
Blocks(c) ==
    [height : (Heights \cup {c.tip}) \ {0}, scan_result : {"Ok", "Err"}]

\* handle_block, were it to ask for the next block once it scanned one
handle_block_asking_next(st, block) ==
    CASE st = "Behind" ->
            [response |-> "Disconnect", scanned |-> FALSE, emitted |-> <<>>]
      [] st = "FiltersSynced" ->
            [response |-> "GetBlock", scanned |-> TRUE,
             emitted |-> IF block.scan_result = "Err"
                         THEN <<Warning("unexpected block scanning error")>>
                         ELSE <<>>]
      [] OTHER ->
            [response |-> NoMessage, scanned |-> FALSE, emitted |-> <<>>]

\* handle_block, were a block scanned once the filters are synced and after
handle_block_scanning_on(st, block) ==
    CASE st = "Behind" ->
            [response |-> "Disconnect", scanned |-> FALSE, emitted |-> <<>>]
      [] st \in {"FiltersSynced", "TransactionsSynced"} ->
            [response |-> NoMessage, scanned |-> TRUE,
             emitted |-> IF block.scan_result = "Err"
                         THEN <<Warning("unexpected block scanning error")>>
                         ELSE <<>>]
      [] OTHER ->
            [response |-> NoMessage, scanned |-> FALSE, emitted |-> <<>>]

\* Node::handle_block: the block is passed to scan_block in FiltersSynced only
handle_block(st, block) ==
    CASE st = "Behind" ->
            [response |-> "Disconnect", scanned |-> FALSE, emitted |-> <<>>]
      [] st = "FiltersSynced" ->
            [response |-> NoMessage, scanned |-> TRUE,
             emitted |-> IF block.scan_result = "Err"
                         THEN <<Warning("unexpected block scanning error")>>
                         ELSE <<>>]
      [] OTHER ->
            [response |-> NoMessage, scanned |-> FALSE, emitted |-> <<>>]

\* Node::pop_block_queue
pop_block_queue(c) ==
    LET next == next_block(c) IN
    IF next.block_hash # NoBlock
    THEN [request |-> "GetBlock", block_hash |-> next.block_hash, chain |-> next.chain,
          emitted |-> <<Dialog("Next block in queue")>>]
    ELSE [request |-> NoMessage, block_hash |-> NoBlock, chain |-> next.chain,
          emitted |-> <<>>]

\* handle_inventory_blocks, were it to ask for headers and keep its state
handle_inventory_blocks_keeping(st) ==
    IF st = "Behind"
    THEN [response |-> NoMessage, state |-> st]
    ELSE [response |-> "GetHeaders", state |-> st]

\* Node::handle_inventory_blocks
handle_inventory_blocks(st) ==
    IF st = "Behind"
    THEN [response |-> NoMessage, state |-> st]
    ELSE [response |-> "GetHeaders", state |-> "Behind"]

(***************************************************************************)
(* Node: peer selection.  The peer store and the DNS seeds are outside the *)
(* node: what a read of them returns is an input of the step.              *)
(***************************************************************************)
\* Result<Option<peer>>: of get_random_cpf_peer and of get_random_new
StoreResults == {"Err", "None", "Some"}

\* Result of Dns::bootstrap
DnsResults == {"Err", "Ok"}

NoPeer == [source |-> "None", addr |-> "None"]

\* a source that a selection did not read
Unread == "Unread"

\* Node::cpf_peer
cpf_peer(cpf_result) ==
    CASE cpf_result = "Err" -> [error |-> "LoadError", peer |-> NoPeer]
      [] cpf_result = "Some" -> [error |-> "None", peer |-> [source |-> "cpf", addr |-> "cpf"]]
      [] OTHER -> [error |-> "None", peer |-> NoPeer]

\* Node::any_peer, were a failed DNS bootstrap passed over
any_peer_ignoring_dns(wl, new_result, dns_result, add_result) ==
    IF wl # <<>>
    THEN [error |-> "None",
          peer |-> [source |-> "whitelist", addr |-> wl[Len(wl)]],
          white_list |-> SubSeq(wl, 1, Len(wl) - 1),
          reads |-> [cpf |-> Unread, new |-> Unread, dns |-> Unread],
          emitted |-> <<Dialog("Using a peer from the white list")>>]
    ELSE CASE new_result = "Err" ->
                [error |-> "LoadError", peer |-> NoPeer, white_list |-> wl,
                 reads |-> [cpf |-> Unread, new |-> new_result, dns |-> Unread],
                 emitted |-> <<>>]
           [] new_result = "Some" ->
                [error |-> "None", peer |-> [source |-> "new", addr |-> "new"],
                 white_list |-> wl,
                 reads |-> [cpf |-> Unread, new |-> new_result, dns |-> Unread],
                 emitted |-> <<Dialog("Loaded peer from the database")>>]
           [] OTHER ->
                [error |-> "None", peer |-> [source |-> "dns", addr |-> "dns"],
                 white_list |-> wl,
                 reads |-> [cpf |-> Unread, new |-> new_result, dns |-> dns_result],
                 emitted |-> <<>>]

\* Node::any_peer, were it to read the last entry of the whitelist and leave it
any_peer_keeping(wl, new_result, dns_result, add_result) ==
    IF wl # <<>>
    THEN [error |-> "None",
          peer |-> [source |-> "whitelist", addr |-> wl[Len(wl)]],
          white_list |-> wl,
          reads |-> [cpf |-> Unread, new |-> Unread, dns |-> Unread],
          emitted |-> <<Dialog("Using a peer from the white list")>>]
    ELSE CASE new_result = "Err" ->
                [error |-> "LoadError", peer |-> NoPeer, white_list |-> wl,
                 reads |-> [cpf |-> Unread, new |-> new_result, dns |-> Unread],
                 emitted |-> <<>>]
           [] new_result = "Some" ->
                [error |-> "None", peer |-> [source |-> "new", addr |-> "new"],
                 white_list |-> wl,
                 reads |-> [cpf |-> Unread, new |-> new_result, dns |-> Unread],
                 emitted |-> <<Dialog("Loaded peer from the database")>>]
           [] OTHER ->
                IF dns_result = "Err"
                THEN [error |-> "DnsFailure", peer |-> NoPeer, white_list |-> wl,
                      reads |-> [cpf |-> Unread, new |-> new_result, dns |-> dns_result],
                      emitted |-> <<>>]
                ELSE [error |-> "None", peer |-> [source |-> "dns", addr |-> "dns"],
                      white_list |-> wl,
                      reads |-> [cpf |-> Unread, new |-> new_result, dns |-> dns_result],
                      emitted |-> IF add_result = "Err"
                                  THEN <<Warning("error adding a peer to the database")>>
                                  ELSE <<>>]

\* Node::any_peer: the whitelist first (popped from its end), then
\* get_random_new, then the DNS seeds, whose peers are added to the store;
\* `reads` is what each source it read gave
any_peer(wl, new_result, dns_result, add_result) ==
    IF wl # <<>>
    THEN [error |-> "None",
          peer |-> [source |-> "whitelist", addr |-> wl[Len(wl)]],
          white_list |-> SubSeq(wl, 1, Len(wl) - 1),
          reads |-> [cpf |-> Unread, new |-> Unread, dns |-> Unread],
          emitted |-> <<Dialog("Using a peer from the white list")>>]
    ELSE CASE new_result = "Err" ->
                [error |-> "LoadError", peer |-> NoPeer, white_list |-> wl,
                 reads |-> [cpf |-> Unread, new |-> new_result, dns |-> Unread],
                 emitted |-> <<>>]
           [] new_result = "Some" ->
                [error |-> "None", peer |-> [source |-> "new", addr |-> "new"],
                 white_list |-> wl,
                 reads |-> [cpf |-> Unread, new |-> new_result, dns |-> Unread],
                 emitted |-> <<Dialog("Loaded peer from the database")>>]
           [] OTHER ->
                IF dns_result = "Err"
                THEN [error |-> "DnsFailure", peer |-> NoPeer, white_list |-> wl,
                      reads |-> [cpf |-> Unread, new |-> new_result, dns |-> dns_result],
                      emitted |-> <<>>]
                ELSE [error |-> "None", peer |-> [source |-> "dns", addr |-> "dns"],
                      white_list |-> wl,
                      reads |-> [cpf |-> Unread, new |-> new_result, dns |-> dns_result],
                      emitted |-> IF add_result = "Err"
                                  THEN <<Warning("error adding a peer to the database")>>
                                  ELSE <<>>]

\* Node::next_peer
next_peer(st, wl, cpf_result, new_result, dns_result, add_result) ==
    IF st = "Behind"
    THEN any_peer(wl, new_result, dns_result, add_result)
    ELSE LET got_peer == cpf_peer(cpf_result) IN
         IF got_peer.error # "None"
         THEN [error |-> got_peer.error, peer |-> NoPeer, white_list |-> wl,
               reads |-> [cpf |-> cpf_result, new |-> Unread, dns |-> Unread],
               emitted |-> <<>>]
         ELSE IF got_peer.peer # NoPeer
         THEN [error |-> "None", peer |-> got_peer.peer, white_list |-> wl,
               reads |-> [cpf |-> cpf_result, new |-> Unread, dns |-> Unread],
               emitted |-> <<>>]
         ELSE LET any == any_peer(wl, new_result, dns_result, add_result) IN
              [any EXCEPT !.reads.cpf = cpf_result]

(***************************************************************************)
(* Construction.                                                           *)
(***************************************************************************)
\* Option<HeaderCheckpoint>::None and Option<u32>::None of the configuration
NotSet == -1

\* heights of the checkpoints baked into the library
CheckpointHeights == {0, 2}

\* HeaderCheckpoint::closest_checkpoint_below_height: the nearest baked-in
\* checkpoint not above the height (a checkpoint stands for its height)
closest_checkpoint_below_height(height) ==
    CHOOSE c \in CheckpointHeights :
        /\ c <= height
        /\ \A d \in CheckpointHeights : d <= height => d <= c

\* NodeConfig::default, as NodeBuilder::new takes it
DefaultConfig ==
    [required_peers |-> 1, filter_sync_policy |-> "Continue", white_list |-> <<>>,
     header_checkpoint |-> NotSet, filter_startpoint |-> NotSet]

\* NodeBuilder::add_peers
add_peers(cfg, whitelist) == [cfg EXCEPT !.white_list = whitelist]

\* NodeBuilder::add_peer
add_peer(cfg, trusted_peer) == [cfg EXCEPT !.white_list = Append(@, trusted_peer)]

\* NodeBuilder::num_required_peers
num_required_peers(cfg, num_peers) == [cfg EXCEPT !.required_peers = num_peers]

\* NodeBuilder::anchor_checkpoint
anchor_checkpoint(cfg, checkpoint) == [cfg EXCEPT !.header_checkpoint = checkpoint]

\* NodeBuilder::filter_startpoint: the start height, and an anchor below it
\* when no anchor is set yet
filter_startpoint(cfg, start_height) ==
    LET started == [cfg EXCEPT !.filter_startpoint = start_height] IN
    IF started.header_checkpoint = NotSet
    THEN anchor_checkpoint(started, closest_checkpoint_below_height(start_height))
    ELSE started

\* NodeBuilder::halt_filter_download
halt_filter_download(cfg) == [cfg EXCEPT !.filter_sync_policy = "Halt"]

\* the configuration of example/managed.rs, with a second preferred peer
ExampleConfig ==
    num_required_peers(
        anchor_checkpoint(
            add_peer(add_peer(DefaultConfig, TrustedPeers[1]), TrustedPeers[2]),
            closest_checkpoint_below_height(MaxStartHeight)),
        1)

\* the configurations NodeBuilder produces
NodeConfig ==
    [required_peers : 1..MaxRequiredPeers,
     filter_sync_policy : FilterSyncPolicy,
     white_list : {TrustedPeers},
     header_checkpoint : {ExampleConfig.header_checkpoint},
     filter_startpoint : {NotSet}]

\* Node::new: the fields of the Node built from a configuration
NodeNew(cfg) ==
    [state |-> "Behind",
     chain |-> LoadedChain,
     best_known_height |-> LoadedChain.tip,
     required_peers |-> 1,
     white_list |-> cfg.white_list]

\* what a step records of itself
Op(name) ==
    [op |-> name, peer |-> 0, before |-> state, input |-> "None",
     response |-> NoMessage, flushed |-> FALSE, scanned |-> FALSE,
     needed |-> FALSE, selection |-> "None"]

\* the state once NodeBuilder::build_node has built the Node from one of
\* `configs`, over one of the chains `loaded` that Chain::new can load
BuiltOn(configs, loaded) ==
    \E cfg \in configs, c \in loaded :
        LET node == [NodeNew(cfg) EXCEPT !.chain = c, !.best_known_height = c.tip] IN
        /\ config = cfg
        /\ state = node.state
        /\ chain = node.chain
        /\ best_known_height = node.best_known_height
        /\ required_peers = node.required_peers
        /\ white_list = node.white_list
        /\ pc = "start"
        /\ node_map = [n \in Nonces |-> NoSession]
        /\ mrx = <<>>
        /\ client = {}
        /\ requested = {}
        /\ contributed = {}
        /\ calls = <<>>
        /\ sent = {}
        /\ emitted = <<Dialog("Starting sync")>>
        /\ last_op = [op |-> "new", peer |-> 0, before |-> "Behind", input |-> "None",
                      response |-> NoMessage, flushed |-> FALSE, scanned |-> FALSE,
                      needed |-> FALSE, selection |-> "None"]
        /\ run_result = "None"

\* the same, over a Chain that records on one of `quorums`
BuiltOver(configs, quorums) ==
    BuiltOn(configs, {[LoadedChain EXCEPT !.quorum = quorum] : quorum \in quorums})

\* the state once NodeBuilder::build_node has built the Node from one of `configs`
Built(configs) == BuiltOver(configs, {LoadedChain.quorum})

\* no session is followed through Peer::connect
Unfollowed == session = [pos |-> "unfollowed"]

\* the client awaits its events in a loop, as the example does
Prompt == receiver = "prompt" /\ nrx = 0

\* the client holds its receiver and reads when it gets to it; the event that
\* Node::new sent is in the channel
Lagging == receiver = "lagging" /\ nrx = 1

Init == Built({ExampleConfig}) /\ Prompt /\ Unfollowed

InitConfigured == Built(NodeConfig) /\ Prompt /\ Unfollowed

InitLagging == Built({ExampleConfig}) /\ Lagging /\ Unfollowed

InitQuorum == BuiltOver({ExampleConfig}, 1..MaxQuorum) /\ Prompt /\ Unfollowed

\* the node of the example restarted over the headers of an earlier run
InitReloaded ==
    /\ BuiltOn({ExampleConfig}, {[LoadedChain EXCEPT !.tip = MaxLoaded]})
    /\ Prompt
    /\ Unfollowed

(***************************************************************************)
(* NodeBuilder, call by call.                                              *)
(***************************************************************************)
\* the lists given to add_peers
PeerLists == {<<TrustedPeers[1]>>, TrustedPeers}

\* a NodeBuilder as NodeBuilder::new gives it; the Node does not exist yet
\* and its fields are not read before build_node
InitBuilder ==
    /\ pc = "building"
    /\ config = DefaultConfig
    /\ calls = <<>>
    /\ state = "Behind"
    /\ chain = LoadedChain
    /\ best_known_height = 0
    /\ required_peers = 1
    /\ white_list = <<>>
    /\ node_map = [n \in Nonces |-> NoSession]
    /\ mrx = <<>>
    /\ client = {}
    /\ requested = {}
    /\ contributed = {}
    /\ sent = {}
    /\ emitted = <<>>
    /\ last_op = [op |-> "builder", peer |-> 0, before |-> "Behind", input |-> "None",
                  response |-> NoMessage, flushed |-> FALSE, scanned |-> FALSE,
                  needed |-> FALSE, selection |-> "None"]
    /\ run_result = "None"
    /\ Prompt
    /\ Unfollowed

\* a call of a builder method, which gives the configuration `cfg`
Configures(method, arg, cfg) ==
    /\ pc = "building"
    /\ Len(calls) < MaxCalls
    /\ config' = cfg
    /\ calls' = Append(calls, [method |-> method, arg |-> arg])
    /\ UNCHANGED <<pc, state, chain, best_known_height, required_peers, white_list,
                   node_map, mrx, receiver, nrx, session, client, requested, contributed,
                   sent, emitted, last_op, run_result>>

AddPeers ==
    \E whitelist \in PeerLists :
        Configures("add_peers", whitelist, add_peers(config, whitelist))

AddPeer ==
    \E trusted_peer \in {TrustedPeers[i] : i \in 1..Len(TrustedPeers)} :
        Configures("add_peer", trusted_peer, add_peer(config, trusted_peer))

NumRequiredPeers ==
    \E num_peers \in 1..MaxRequiredPeers :
        Configures("num_required_peers", num_peers,
                   num_required_peers(config, num_peers))

AnchorCheckpoint ==
    \E checkpoint \in 0..MaxStartHeight :
        Configures("anchor_checkpoint", checkpoint,
                   anchor_checkpoint(config, checkpoint))

FilterStartpoint ==
    \E start_height \in 0..MaxStartHeight :
        Configures("filter_startpoint", start_height,
                   filter_startpoint(config, start_height))

HaltFilterDownload ==
    Configures("halt_filter_download", "None", halt_filter_download(config))

\* NodeBuilder::build_node: the Node is built from the configuration
BuildNode ==
    /\ pc = "building"
    /\ LET node == NodeNew(config) IN
        /\ state' = node.state
        /\ chain' = node.chain
        /\ best_known_height' = node.best_known_height
        /\ required_peers' = node.required_peers
        /\ white_list' = node.white_list
    /\ pc' = "start"
    /\ emitted' = <<Dialog("Starting sync")>>
    /\ sent' = {}
    /\ last_op' = Op("new")
    /\ UNCHANGED <<node_map, mrx, config, receiver, nrx, calls, session, client,
                   requested, contributed, run_result>>

NextBuilder ==
    \/ AddPeers
    \/ AddPeer
    \/ NumRequiredPeers
    \/ AnchorCheckpoint
    \/ FilterStartpoint
    \/ HaltFilterDownload
    \/ BuildNode

\* a NodeBuilder from NodeBuilder::new to build_node
BuilderSpec == InitBuilder /\ [][NextBuilder]_vars

(***************************************************************************)
(* Node::run, step by step.                                                *)
(***************************************************************************)
\* Node::send_dialog, send_warning and the send of Synced: each awaits room in
\* the client-event channel, so a step that sends waits while the events it
\* sends do not fit; a prompt client has received every event before the
\* next is sent
ClientSends ==
    /\ nrx' = IF receiver = "prompt" THEN nrx ELSE nrx + Len(emitted')
    /\ nrx' <= MaxUnread

\* run, before the loop
RunStart ==
    /\ pc = "start"
    /\ pc' = "advance_state"
    /\ emitted' = <<Dialog("Starting node")>>
    /\ sent' = {}
    /\ last_op' = Op("run")
    /\ UNCHANGED <<state, chain, best_known_height, required_peers, white_list,
                   node_map, mrx, config, receiver, calls, session, client,
                   requested, contributed, run_result>>
    /\ ClientSends

\* a call of advance_state at `at`, run continuing at `then`
AdvanceStateAt(at, then) ==
    /\ pc = at
    /\ LET advanced == advance_state(state, chain) IN
        /\ state' = advanced.state
        /\ emitted' = advanced.emitted
        /\ last_op' = [Op("advance_state") EXCEPT !.flushed = advanced.flushed]
    /\ pc' = then
    /\ sent' = {}
    /\ UNCHANGED <<chain, best_known_height, required_peers, white_list, node_map,
                   mrx, config, receiver, calls, session, client, requested,
                   contributed, run_result>>
    /\ ClientSends

\* the advance_state that opens an iteration of the loop
LoopAdvanceState == AdvanceStateAt("advance_state", "rehydrate")

\* the advance_state that follows a handled event
EventAdvanceState == AdvanceStateAt("event_advance_state", "recv")

\* clean the map, and dispatch a new peer when too few are live
Rehydrate ==
    /\ pc = "rehydrate"
    /\ LET cleaned == clean(node_map)
           needed == live(cleaned) < next_required_peers(state, required_peers)
           dialogs == <<Dialog("Required peers, connected peers"),
                        Dialog("Not connected to enough peers, finding one...")>>
       IN IF ~needed
          THEN /\ node_map' = cleaned
               /\ pc' = "pop_block_queue"
               /\ emitted' = <<>>
               /\ last_op' = Op("rehydrate")
               /\ UNCHANGED <<white_list, run_result>>
          ELSE \E cpf_result \in StoreResults, new_result \in StoreResults,
                  dns_result \in DnsResults, add_result \in {"Ok", "Err"} :
                LET ip == next_peer(state, white_list, cpf_result, new_result,
                                    dns_result, add_result)
                IN  /\ white_list' = ip.white_list
                    /\ emitted' = dialogs \o ip.emitted
                    /\ last_op' = [Op("rehydrate") EXCEPT
                            !.needed = TRUE,
                            !.selection = ip]
                    /\ IF ip.error # "None"
                       THEN /\ pc' = "returned"
                            /\ run_result' = ip.error
                            /\ node_map' = cleaned
                       ELSE /\ pc' = "pop_block_queue"
                            /\ node_map' = dispatch(cleaned)
                            /\ UNCHANGED run_result
    /\ sent' = {}
    /\ UNCHANGED <<state, chain, best_known_height, required_peers, mrx, config,
                   receiver, calls, session, client, requested, contributed>>
    /\ ClientSends

\* take the next block hash from the queue and ask a random peer for the block
PopBlockQueue ==
    /\ pc = "pop_block_queue"
    /\ LET popped == pop_block_queue(chain) IN
        /\ chain' = popped.chain
        /\ IF popped.request = NoMessage
           THEN /\ emitted' = <<>>
                /\ sent' = {}
                /\ UNCHANGED requested
                /\ last_op' = Op("pop_block_queue")
           ELSE /\ emitted' = popped.emitted
                                \o <<Dialog("Sending block request to a random peer")>>
                /\ last_op' = [Op("pop_block_queue") EXCEPT
                        !.response = popped.request, !.input = popped.block_hash]
                /\ IF RandomTargets(node_map) = {}
                   THEN /\ sent' = {}
                        /\ UNCHANGED requested
                   ELSE /\ \E n \in RandomTargets(node_map) :
                            sent' = deliver(node_map, {n}, popped.request).sent
                        /\ requested' = requested \cup {popped.block_hash}
    /\ pc' = "recv"
    /\ UNCHANGED <<state, best_known_height, required_peers, white_list, node_map,
                   mrx, config, receiver, calls, session, client, contributed,
                   run_result>>
    /\ ClientSends

\* the receive of the inner loop times out: no event came for a second
RecvTimeout ==
    /\ pc = "recv"
    /\ mrx = <<>>
    /\ pc' = "advance_state"
    /\ emitted' = <<>>
    /\ sent' = {}
    /\ last_op' = Op("timeout")
    /\ UNCHANGED <<state, chain, best_known_height, required_peers, white_list,
                   node_map, mrx, config, receiver, calls, session, client,
                   requested, contributed, run_result>>
    /\ ClientSends

\* the inner loop receives the event at the head of the channel
Receives(message) ==
    /\ pc = "recv"
    /\ mrx # <<>>
    /\ Head(mrx).message = Carried(message)
    /\ mrx' = Tail(mrx)

\* where run continues after a handler: `continue` for None; a handler that
\* panicked takes the task of run with it
AfterResponse(response) ==
    CASE response = NoMessage -> "recv"
      [] response = Panic -> "panicked"
      [] OTHER -> "event_advance_state"

\* the Version arm of run, for a version message among `versions`
RecvVersionOf(versions) ==
    /\ Receives("Version")
    /\ \E version \in versions :
        LET nonce == Head(mrx).nonce
            known == set_services(node_map, nonce, version.service_flags)
            handled == handle_version(state, best_known_height, chain, version)
            delivered == send_message(known, nonce, handled.response)
        IN  /\ best_known_height' = handled.best_known_height
            /\ chain' = handled.chain
            /\ node_map' = delivered.map
            /\ sent' = delivered.sent
            /\ emitted' = handled.emitted \o <<Dialog("[Peer]: version")>>
            /\ last_op' = [Op("handle_version") EXCEPT
                    !.peer = nonce, !.input = version, !.response = handled.response]
    /\ pc' = "event_advance_state"
    /\ UNCHANGED <<state, required_peers, white_list, config, receiver, calls,
                   session, client, requested, contributed, run_result>>
    /\ ClientSends

\* the Version of a peer that advertises a height of the chain
RecvVersion == RecvVersionOf(Versions(chain))

\* the Version of a peer that advertises a negative height
RecvSignedVersion == RecvVersionOf(SignedVersions)

RecvAddr ==
    /\ Receives("Addr")
    /\ \E add_result \in {"Ok", "Err"} :
        /\ emitted' = handle_new_addrs(add_result)
        /\ last_op' = [Op("handle_new_addrs") EXCEPT
                !.peer = Head(mrx).nonce, !.input = add_result]
    /\ pc' = "event_advance_state"
    /\ sent' = {}
    /\ UNCHANGED <<state, chain, best_known_height, required_peers, white_list,
                   node_map, config, receiver, calls, session, client, requested,
                   contributed, run_result>>
    /\ ClientSends

RecvHeaders ==
    /\ Receives("Headers")
    /\ \E headers \in HeaderBatches(chain) :
        LET nonce == Head(mrx).nonce
            handled == handle_headers(chain, headers)
            delivered == IF handled.response \in {NoMessage, Panic}
                         THEN [map |-> node_map, sent |-> {}]
                         ELSE send_message(node_map, nonce, handled.response)
        IN  /\ chain' = handled.chain
            /\ node_map' = delivered.map
            /\ sent' = delivered.sent
            /\ emitted' = handled.emitted
            /\ pc' = AfterResponse(handled.response)
            /\ last_op' = [Op("handle_headers") EXCEPT
                    !.peer = nonce, !.input = headers, !.response = handled.response]
            /\ contributed' = IF headers = "reorg" THEN {} ELSE contributed
    /\ UNCHANGED <<state, best_known_height, required_peers, white_list, config,
                   receiver, calls, session, client, requested, run_result>>
    /\ ClientSends

\* a handler whose response run broadcasts
Broadcasts(response) ==
    LET delivered == IF response \in {NoMessage, Panic}
                     THEN [map |-> node_map, sent |-> {}]
                     ELSE broadcast(node_map, response)
    IN  /\ node_map' = delivered.map
        /\ sent' = delivered.sent
        /\ pc' = AfterResponse(response)

RecvFilterHeaders ==
    /\ Receives("FilterHeaders")
    /\ \E cf_headers \in CFHeaderBatches :
        LET nonce == Head(mrx).nonce
            handled == handle_cf_headers(chain, nonce, cf_headers)
        IN  /\ chain' = handled.chain
            /\ Broadcasts(handled.response)
            /\ emitted' = handled.emitted
            /\ last_op' = [Op("handle_cf_headers") EXCEPT
                    !.peer = nonce, !.input = cf_headers,
                    !.response = handled.response]
            /\ contributed' =
                    IF handled.chain.cf_headers > chain.cf_headers THEN {}
                    ELSE IF cf_headers = "agreeing" /\ chain.cf_headers < chain.tip
                    THEN contributed \cup {nonce}
                    ELSE contributed
    /\ UNCHANGED <<state, best_known_height, required_peers, white_list, config,
                   receiver, calls, session, client, requested, run_result>>
    /\ ClientSends

RecvFilter ==
    /\ Receives("Filter")
    /\ \E filter \in Filters(chain) :
        LET nonce == Head(mrx).nonce
            handled == handle_filter(chain, nonce, filter)
        IN  /\ chain' = handled.chain
            /\ Broadcasts(handled.response)
            /\ emitted' = handled.emitted
            /\ last_op' = [Op("handle_filter") EXCEPT
                    !.peer = nonce, !.input = filter, !.response = handled.response]
    /\ UNCHANGED <<state, best_known_height, required_peers, white_list, config,
                   receiver, calls, session, client, requested, contributed,
                   run_result>>
    /\ ClientSends

RecvBlock ==
    /\ Receives("Block")
    /\ \E block \in Blocks(chain) :
        LET handled == handle_block(state, block) IN
        /\ Broadcasts(handled.response)
        /\ emitted' = handled.emitted
        /\ requested' = IF handled.scanned THEN requested \ {block.height}
                        ELSE requested
        /\ last_op' = [Op("handle_block") EXCEPT
                !.peer = Head(mrx).nonce, !.input = block,
                !.response = handled.response, !.scanned = handled.scanned]
    /\ UNCHANGED <<state, chain, best_known_height, required_peers, white_list,
                   config, receiver, calls, session, client, contributed,
                   run_result>>
    /\ ClientSends

RecvNewBlocks ==
    /\ Receives("NewBlocks")
    /\ LET handled == handle_inventory_blocks(state) IN
        /\ state' = handled.state
        /\ Broadcasts(handled.response)
        /\ last_op' = [Op("handle_inventory_blocks") EXCEPT
                !.peer = Head(mrx).nonce, !.response = handled.response]
    /\ emitted' = <<>>
    /\ UNCHANGED <<chain, best_known_height, required_peers, white_list, config,
                   receiver, calls, session, client, requested, contributed,
                   run_result>>
    /\ ClientSends

RecvDisconnect ==
    /\ Receives("Disconnect")
    /\ node_map' = clean(node_map)
    /\ pc' = "event_advance_state"
    /\ emitted' = <<>>
    /\ sent' = {}
    /\ last_op' = [Op("disconnect") EXCEPT !.peer = Head(mrx).nonce]
    /\ UNCHANGED <<state, chain, best_known_height, required_peers, white_list,
                   config, receiver, calls, session, client, requested,
                   contributed, run_result>>
    /\ ClientSends

\* a step of the Node task
NodeStep ==
    \/ RunStart
    \/ LoopAdvanceState
    \/ Rehydrate
    \/ PopBlockQueue
    \/ RecvTimeout
    \/ RecvVersion
    \/ RecvAddr
    \/ RecvHeaders
    \/ RecvFilterHeaders
    \/ RecvFilter
    \/ RecvBlock
    \/ RecvNewBlocks
    \/ RecvDisconnect
    \/ EventAdvanceState

(***************************************************************************)
(* The peer sessions and the client.                                       *)
(***************************************************************************)
\* The sessions and the client run beside the Node task.  A session that ends
\* changes what the map shows: advance_state does not read the map, so the end
\* of a session right before it gives the same state as right after it, and
\* sessions end at the other places of run only.
Concurrent == pc \in {"rehydrate", "pop_block_queue", "recv"}

\* No step of run but the receive reads the channel or the client's commands:
\* an event forwarded or a command issued before the receive gives the same
\* state as one forwarded or issued when run is at the receive.
Receiving == pc = "recv"

\* a step that is not the Node's: the Node sends and emits nothing in it
Beside(name) ==
    /\ sent' = {}
    /\ emitted' = <<>>
    /\ last_op' = Op(name)
    /\ UNCHANGED nrx

\* Peer::connect fails before its loop: the session ends without an event
SessionConnectFails(n) ==
    /\ Concurrent
    /\ node_map[n].status = "Handshaking"
    /\ node_map' = [node_map EXCEPT ![n] = [status |-> "Closed", services |-> {}]]
    /\ Beside("connect")
    /\ UNCHANGED <<pc, state, chain, best_known_height, required_peers, white_list,
                   mrx, config, receiver, calls, session, client, requested,
                   contributed, run_result>>

\* Peer::handle_peer_message: the session forwards what its reader read; after
\* forwarding Disconnect it leaves its loop
SessionForwards(n, message) ==
    /\ IF message = "Disconnect" THEN Concurrent ELSE Receiving
    /\ n \in Open(node_map)
    /\ Len(mrx) < MaxInFlight
    /\ mrx' = Append(mrx, [nonce |-> n, message |-> message])
    /\ node_map' = IF message = "Disconnect"
                   THEN [node_map EXCEPT ![n] = [status |-> "Closed", services |-> {}]]
                   ELSE node_map
    /\ Beside("handle_peer_message")
    /\ UNCHANGED <<pc, state, chain, best_known_height, required_peers, white_list,
                   config, receiver, calls, session, client, requested,
                   contributed, run_result>>

\* the client issues a command: shutdown, or ContinueFilters under Halt
ClientCommand(command) ==
    /\ Receiving
    /\ "Shutdown" \notin client
    /\ command \notin client
    /\ command = "ContinueFilters" => config.filter_sync_policy = "Halt"
    /\ client' = client \cup {command}
    /\ Beside("client")
    /\ UNCHANGED <<pc, state, chain, best_known_height, required_peers, white_list,
                   node_map, mrx, config, receiver, calls, session, requested,
                   contributed, run_result>>

\* the client receives the oldest event of its channel
ClientReceives ==
    /\ receiver = "lagging"
    /\ nrx > 0
    /\ nrx' = nrx - 1
    /\ sent' = {}
    /\ emitted' = <<>>
    /\ last_op' = Op("client_recv")
    /\ UNCHANGED <<pc, state, chain, best_known_height, required_peers, white_list,
                   node_map, mrx, config, receiver, calls, session, client,
                   requested, contributed, run_result>>

\* a step of a peer session
SessionStep ==
    \/ \E n \in Nonces : SessionConnectFails(n)
    \/ \E n \in Nonces, message \in InFlight : SessionForwards(n, message)

\* a step of the client
ClientStep == \E command \in {"Shutdown", "ContinueFilters"} : ClientCommand(command)

Next == NodeStep \/ SessionStep

\* the node of the example and its peers
Spec == Init /\ [][Next]_vars

NextConfigured == NodeStep \/ SessionStep \/ ClientStep

\* every configuration, the peers and the client; the Node task is scheduled
\* whenever it can run (its receive times out after a second)
FullSpec == InitConfigured /\ [][NextConfigured]_vars /\ WF_vars(NodeStep)

NextLagging == NodeStep \/ SessionStep \/ ClientReceives

\* the node of the example, its peers, and a client that reads at its own pace
LaggingSpec == InitLagging /\ [][NextLagging]_vars

\* the node of the example and its peers, over a Chain of any quorum
QuorumSpec == InitQuorum /\ [][Next]_vars

\* the node of the example and its peers, over a chain loaded from the store
ReloadedSpec == InitReloaded /\ [][Next]_vars

NextSigned == Next \/ RecvSignedVersion

\* the node of the example, fresh or restarted, and its peers, of which some
\* advertise a negative height
SignedSpec == (Init \/ InitReloaded) /\ [][NextSigned]_vars

\* the node of the example and its peers, the Node task scheduled whenever it
\* can run (its receive times out after a second)
FairSpec == Init /\ [][Next]_vars /\ WF_vars(NodeStep)

(***************************************************************************)
(* One peer session, followed through Peer::connect: its reader task, the  *)
(* socket it writes, the peer-event channel it shares with the Node and    *)
(* the request channel the Node holds to it.                               *)
(***************************************************************************)
\* the nonce the PeerMap gave the followed session
SessionNonce == 1

\* the nonces a remote puts in its Ping
PingNonces == {1, 2}

\* what the reader makes of the bytes of the remote; `n` is the nonce of a
\* Ping, `seq` the place of the message among those read
RemoteMessages ==
    [type : {"Version", "Addr", "Headers", "Disconnect", "Verack", "Pong"}, n : {0}]
        \cup [type : {"Ping"}, n : PingNonces]

PeerError ==
    {"TcpConnectionFailed", "BufferWriteError", "ThreadChannelError",
     "DisconnectCommand"}

\* handle_peer_message, were it to tell the Node of a Ping it answered
handle_peer_message_surfacing(message) ==
    CASE message.type = "Version" ->
            [forwards |-> TRUE, writes |-> "Verack", error |-> "None"]
      [] message.type \in {"Addr", "Headers"} ->
            [forwards |-> TRUE, writes |-> "None", error |-> "None"]
      [] message.type = "Disconnect" ->
            [forwards |-> TRUE, writes |-> "None", error |-> "DisconnectCommand"]
      [] message.type = "Ping" ->
            [forwards |-> TRUE, writes |-> "Pong", error |-> "None"]
      [] OTHER ->
            [forwards |-> FALSE, writes |-> "None", error |-> "None"]

\* handle_peer_message, were the Disconnect arm to end with Ok
handle_peer_message_staying(message) ==
    CASE message.type = "Version" ->
            [forwards |-> TRUE, writes |-> "Verack", error |-> "None"]
      [] message.type \in {"Addr", "Headers"} ->
            [forwards |-> TRUE, writes |-> "None", error |-> "None"]
      [] message.type = "Disconnect" ->
            [forwards |-> TRUE, writes |-> "None", error |-> "None"]
      [] message.type = "Ping" ->
            [forwards |-> FALSE, writes |-> "Pong", error |-> "None"]
      [] OTHER ->
            [forwards |-> FALSE, writes |-> "None", error |-> "None"]

\* Peer::handle_peer_message: whether the message is sent to the Node, what is
\* then written to the socket, and the error the method ends with
handle_peer_message(message) ==
    CASE message.type = "Version" ->
            [forwards |-> TRUE, writes |-> "Verack", error |-> "None"]
      [] message.type \in {"Addr", "Headers"} ->
            [forwards |-> TRUE, writes |-> "None", error |-> "None"]
      [] message.type = "Disconnect" ->
            [forwards |-> TRUE, writes |-> "None", error |-> "DisconnectCommand"]
      [] message.type = "Ping" ->
            [forwards |-> FALSE, writes |-> "Pong", error |-> "None"]
      [] OTHER ->
            [forwards |-> FALSE, writes |-> "None", error |-> "None"]

\* Peer::main_thread_request: nothing is sent to the Node; what is written to
\* the socket, and the error the method ends with
main_thread_request(request) ==
    CASE request = "GetAddr" ->
            [forwards |-> FALSE, writes |-> "GetAddr", error |-> "None"]
      [] request = "GetHeaders" ->
            [forwards |-> FALSE, writes |-> "GetHeaders", error |-> "None"]
      [] request = "Disconnect" ->
            [forwards |-> FALSE, writes |-> "None", error |-> "DisconnectCommand"]

\* the loop of Peer::connect, were it to return on every error of a method
loop_result_strict(error) == IF error # "None" THEN "returned" ELSE "loop"

\* the loop of Peer::connect, on what a method returned: it returns on
\* DisconnectCommand and goes on after Ok and after every other error
loop_result(error) == IF error = "DisconnectCommand" THEN "returned" ELSE "loop"

\* Sender::send on a bounded channel: the item is queued, or the receiver is
\* gone, or the channel is full and the sender waits
send(channel, open, capacity, item) ==
    IF ~open THEN [result |-> "Closed", channel |-> channel]
    ELSE IF Len(channel) < capacity
    THEN [result |-> "Ok", channel |-> Append(channel, item)]
    ELSE [result |-> "Full", channel |-> channel]

\* a write to the socket, by whether it succeeded
write(message, n, ok) == [message |-> message, n |-> n, ok |-> ok]

NoWrite == write("None", 0, TRUE)

\* what a step of the followed session, or of the Node towards it, did
Took(name, message) ==
    [op |-> name, type |-> message.type, seq |-> message.seq, n |-> message.n,
     wrote |-> NoWrite, forwarded |-> FALSE]

Nothing == [type |-> "None", n |-> 0, seq |-> 0]

\* PeerMap::dispatch has spawned the session; the Node is in run
Dispatched ==
    [pos |-> "connect", result |-> "None", reader |-> "None", reads |-> 0,
     rx |-> <<>>, held |-> Nothing, events |-> <<>>, node |-> "recv",
     response |-> "None", requests |-> <<>>, greeted |-> FALSE, owed |-> <<>>,
     last |-> Took("dispatch", Nothing)]

\* every variable of the Node stays as it is
NodeAside ==
    UNCHANGED <<pc, state, chain, best_known_height, required_peers, white_list,
                node_map, mrx, config, client, requested, contributed, nrx,
                receiver, calls, sent, emitted, last_op, run_result>>

\* Peer::connect up to its loop: the TCP connection, the version message, the
\* reader task
Connect ==
    /\ session.pos = "connect"
    /\ \E outcome \in {"TcpConnectionFailed", "BufferWriteError", "Ok"} :
        session' =
            CASE outcome = "TcpConnectionFailed" ->
                    [session EXCEPT !.pos = "returned", !.result = outcome,
                                    !.last = Took("connect", Nothing)]
              [] outcome = "BufferWriteError" ->
                    [session EXCEPT !.pos = "returned", !.result = outcome,
                        !.last = [Took("connect", Nothing) EXCEPT
                                    !.wrote = write("Version", 0, FALSE)]]
              [] outcome = "Ok" ->
                    [session EXCEPT !.pos = "loop", !.reader = "running",
                        !.last = [Took("connect", Nothing) EXCEPT
                                    !.wrote = write("Version", 0, TRUE)]]
    /\ NodeAside

\* the reader task reads a message from the remote and queues it for the
\* session; its channel holds 32, more than the reader reads here
ReaderReads ==
    /\ session.pos \in {"loop", "sending"}
    /\ session.reader = "running"
    /\ session.reads < MaxWire
    /\ \E remote \in RemoteMessages :
        LET seq == session.reads + 1
            message == [type |-> remote.type, n |-> remote.n, seq |-> seq]
        IN  session' = [session EXCEPT
                !.reads = seq,
                !.rx = Append(@, message),
                !.owed = IF handle_peer_message(message).forwards
                         THEN Append(@, seq) ELSE @,
                !.last = Took("read_from_remote", message)]
    /\ NodeAside

\* the reader task ends on a read error
ReaderEnds ==
    /\ session.pos \in {"loop", "sending"}
    /\ session.reader = "running"
    /\ session' = [session EXCEPT !.reader = "ended",
                                  !.last = Took("read_error", Nothing)]
    /\ NodeAside

\* the session after the socket write of a plan, if any, and the error the
\* method ends with
Written(s, name, message, plan, ok) ==
    LET error == IF plan.writes # "None" /\ ~ok THEN "BufferWriteError"
                 ELSE plan.error
        at == loop_result(error)
    IN  [s EXCEPT
            !.pos = at,
            !.result = IF at = "returned" THEN "Ok" ELSE @,
            !.held = Nothing,
            !.last = [Took(name, message) EXCEPT
                        !.wrote = IF plan.writes = "None" THEN NoWrite
                                  ELSE write(plan.writes, message.n, ok),
                        !.forwarded = plan.forwards]]

\* the rx.recv() arm of the select: a message of the reader is handled, up to
\* the send to the Node if it has one
TakesPeerMessage ==
    /\ session.pos = "loop"
    /\ session.rx # <<>>
    /\ LET message == Head(session.rx)
           plan == handle_peer_message(message)
           taken == [session EXCEPT
                        !.rx = Tail(@),
                        !.greeted = @ \/ message.type = "Verack"]
       IN  IF plan.forwards
           THEN session' = [taken EXCEPT !.pos = "sending", !.held = message,
                                         !.last = Took("handle_peer_message", message)]
           ELSE \E ok \in BOOLEAN :
                    session' = Written(taken, "handle_peer_message", message, plan, ok)
    /\ NodeAside

\* the send to the Node, were it a try_send: an event that meets the full
\* channel is given up and the method goes on
Forwards_try_send ==
    /\ session.pos = "sending"
    /\ LET message == session.held
           plan == handle_peer_message(message)
           sending == send(session.events, session.node # "gone", MaxInFlight,
                           [nonce |-> SessionNonce, message |-> message])
       IN  IF sending.result = "Closed"
           THEN session' = [session EXCEPT
                     !.pos = loop_result("ThreadChannelError"),
                     !.held = Nothing,
                     !.last = Took("send_failed", message)]
           ELSE \E ok \in BOOLEAN :
                 session' = Written([session EXCEPT !.events = sending.channel],
                                    "sent", message, plan, ok)
    /\ NodeAside

\* main_thread_sender.send(..).await and the rest of handle_peer_message
Forwards ==
    /\ session.pos = "sending"
    /\ LET message == session.held
           plan == handle_peer_message(message)
           sending == send(session.events, session.node # "gone", MaxInFlight,
                           [nonce |-> SessionNonce, message |-> message])
       IN  /\ sending.result # "Full"
           /\ IF sending.result = "Closed"
              THEN session' = [session EXCEPT
                        !.pos = loop_result("ThreadChannelError"),
                        !.held = Nothing,
                        !.last = Took("send_failed", message)]
              ELSE \E ok \in BOOLEAN :
                    session' = Written([session EXCEPT !.events = sending.channel],
                                       "sent", message, plan, ok)
    /\ NodeAside

\* the main_thread_recv.recv() arm of the select: a command of the Node
TakesRequest ==
    /\ session.pos = "loop"
    /\ session.requests # <<>>
    /\ LET request == Head(session.requests)
           plan == main_thread_request(request)
           asked == [type |-> request, n |-> 0, seq |-> 0]
       IN  \E ok \in BOOLEAN :
            session' = Written([session EXCEPT !.requests = Tail(@)],
                               "main_thread_request", asked, plan, ok)
    /\ NodeAside

\* an arm of the select finds its channel closed and empty: `None => continue`
Continues ==
    /\ session.pos = "loop"
    /\ \/ session.rx = <<>> /\ session.reader = "ended"
       \/ session.requests = <<>> /\ session.node = "gone"
    /\ session' = [session EXCEPT !.last = Took("continue", Nothing)]
    /\ NodeAside

\* the commands with which run answers an event of the session
Responses(type) ==
    CASE type = "Version" -> {"GetHeaders", "Disconnect"}
      [] type = "Headers" -> {"GetHeaders", "Disconnect", "None"}
      [] OTHER -> {"None"}

\* run receives the oldest event of the channel and its handler returns
NodeTakes ==
    /\ session.node = "recv"
    /\ session.events # <<>>
    /\ LET event == Head(session.events) IN
       \E response \in Responses(event.message.type) :
        session' = [session EXCEPT
            !.events = Tail(@),
            !.owed = IF @ = <<>> THEN @ ELSE Tail(@),
            !.node = IF response = "None" THEN "recv" ELSE "sending",
            !.response = response,
            !.last = [Took("recv", event.message) EXCEPT !.n = event.nonce]]
    /\ NodeAside

\* node_map.send_message(nonce, response).await
NodeSends ==
    /\ session.node = "sending"
    /\ LET sending == send(session.requests, session.pos # "returned", MaxRequests,
                           session.response)
       IN  /\ sending.result # "Full"
           /\ session' = [session EXCEPT
                !.requests = sending.channel,
                !.node = "recv",
                !.response = "None",
                !.last = Took("send_message", Nothing)]
    /\ NodeAside

\* run returns with an error of next_peer: the Node drops both channels
NodeReturns ==
    /\ session.node = "recv"
    /\ session.pos # "connect"
    /\ session' = [session EXCEPT !.node = "gone", !.last = Took("run_returned", Nothing)]
    /\ NodeAside

InitPeer == Built({ExampleConfig}) /\ Prompt /\ session = Dispatched

NextPeer ==
    \/ Connect
    \/ ReaderReads
    \/ ReaderEnds
    \/ TakesPeerMessage
    \/ Forwards
    \/ TakesRequest
    \/ Continues
    \/ NodeTakes
    \/ NodeSends
    \/ NodeReturns

\* one session from its dispatch on, its reader, and the Node at its channels
PeerSpec == InitPeer /\ [][NextPeer]_vars

(***************************************************************************)
(* Properties.                                                             *)
(***************************************************************************)
\* `event` is among the client events `events`
Emits(events, event) == \E i \in 1..Len(events) : events[i] = event

\* the last step was the Node's step `name`
Did(name) == last_op.op = name

\* C1: NodeState changes in two ways only: advance_state moves it to its
\* immediate successor, or the Inv(NewBlocks) handler sets it to Behind.
C1_StateChangesOnePhaseOrReverts ==
    [][state' # state =>
        \/ /\ last_op'.op = "advance_state"
           /\ Rank(state') = Rank(state) + 1
        \/ /\ last_op'.op = "handle_inventory_blocks"
           /\ state' = "Behind"]_vars

\* C1, reached: the Inv(NewBlocks) handler has reverted a fully synced node
C1_Witness ==
    /\ Did("handle_inventory_blocks")
    /\ last_op.before = "TransactionsSynced"
    /\ state = "Behind"

\* C2: a Headers event that rewrites the header chain while NodeState is past
\* Behind reverts NodeState to Behind.
C2_ReorgRevertsToBehind ==
    [][(/\ last_op'.op = "handle_headers"
        /\ last_op'.input = "reorg"
        /\ state # "Behind") => state' = "Behind"]_vars

\* C3: Synced is emitted only when no block taken from the queue is still to
\* be scanned, and a received block that was requested is passed to scan_block.
C3_SyncedAfterEveryBlockScanned ==
    [][/\ Emits(emitted', Synced) => requested' = {}
       /\ (/\ last_op'.op = "handle_block"
           /\ last_op'.input.height \in requested) => last_op'.scanned]_vars

\* C4: every forward transition of NodeState emits a client event, and Synced
\* is emitted exactly in the step from FiltersSynced to TransactionsSynced.
C4_EventOnEveryTransition ==
    [][/\ Rank(state') > Rank(state) => emitted' # <<>>
       /\ Emits(emitted', Synced)
            <=> (state = "FiltersSynced" /\ state' = "TransactionsSynced")]_vars

\* C4, reached: advance_state has entered TransactionsSynced with the chain
\* at its greatest height, and emitted Synced
C4_Witness ==
    /\ Did("advance_state")
    /\ last_op.before = "FiltersSynced"
    /\ state = "TransactionsSynced"
    /\ Emits(emitted, Synced)
    /\ chain.tip = MaxHeight

\* C5: the whitelist has absolute priority: while it is not empty the peer
\* dispatched is popped from it, and get_random_cpf is read only when it is
\* empty and NodeState is past Behind.
C5_WhitelistFirst ==
    [][(last_op'.op = "rehydrate" /\ last_op'.needed) =>
        /\ white_list # <<>> =>
            last_op'.selection.peer =
                [source |-> "whitelist", addr |-> white_list[Len(white_list)]]
        /\ last_op'.selection.reads.cpf # Unread =>
            (white_list = <<>> /\ state # "Behind")]_vars

\* C6: at step 2 of an iteration a peer is selected exactly when fewer sessions
\* are live than the configuration's required_peers (1 while Behind).
C6_MaintainsConfiguredPeers ==
    [][last_op'.op = "rehydrate" =>
        (last_op'.needed <=>
            live(clean(node_map)) <
                (IF state = "Behind" THEN 1 ELSE config.required_peers))]_vars

\* C7: when a FilterHeaders or Filter event fails validation, Disconnect reaches
\* the peer that sent it only, and every other session stays as it was.
C7_DisconnectIsLocal ==
    [][(/\ last_op'.op \in {"handle_cf_headers", "handle_filter"}
        /\ last_op'.response = "Disconnect") =>
        /\ \A m \in sent' : m.to = last_op'.peer
        /\ \A n \in Nonces \ {last_op'.peer} : node_map'[n] = node_map[n]]_vars

\* C8: under Halt, until the client sends ContinueFilters, no GetFilterHeaders
\* and no GetFilters is issued and NodeState stays at or below HeadersSynced.
C8_HaltSuspendsFilters ==
    (config.filter_sync_policy = "Halt" /\ "ContinueFilters" \notin client) =>
        /\ Rank(state) <= Rank("HeadersSynced")
        /\ \A m \in sent : m.message \notin {"GetFilterHeaders", "GetFilters"}

\* C9: after the client issues shutdown, Node::run eventually returns.
C9_ShutdownReturns == ("Shutdown" \in client) ~> (pc = "returned")

\* C10: a failed selection ends run with its error and dispatches nothing: an
\* exhausted whitelist, a store without a peer and a failed DNS bootstrap give
\* DnsFailure, a failed store read gives LoadError; run never goes on after it.
C10_FailedSelectionReturns ==
    [][/\ (last_op'.op = "rehydrate" /\ last_op'.needed) =>
            LET reads == last_op'.selection.reads
                failed == /\ pc' = "returned"
                          /\ Open(node_map') \subseteq Open(node_map)
            IN  /\ (reads.new = "None" /\ reads.dns = "Err") =>
                        (failed /\ run_result' = "DnsFailure")
                /\ (reads.cpf = "Err" \/ reads.new = "Err") =>
                        (failed /\ run_result' = "LoadError")
                /\ pc' = "returned" => last_op'.selection.error = run_result'
       /\ pc = "returned" => pc' = "returned"
       /\ run_result' # "None" <=> pc' = "returned"]_vars

\* C10, reached: run has returned DnsFailure after the whitelist was used up
C10_Witness ==
    /\ pc = "returned"
    /\ run_result = "DnsFailure"
    /\ Did("rehydrate")
    /\ white_list = <<>>
    /\ last_op.selection.reads.new = "None"
    /\ last_op.selection.reads.dns = "Err"

\* run is under way: it has neither returned nor yet been started
Running == pc \notin {"building", "returned", "panicked"}

\* C11: a client that does not read never stalls the Node: while run is under
\* way the Node task can take its next step.
C11_ClientNeverStallsNode == Running => ENABLED NodeStep

\* C12: a session does not stay open for ever: whatever the remote does, a
\* session that is open eventually ends (by response_timeout or by
\* max_connection_time if by nothing else), unless run returns before.
C12_SessionEventuallyEnds ==
    \A n \in Nonces :
        (n \in Open(node_map)) ~> (n \notin Open(node_map) \/ pc = "returned")

\* the calls of `method` made on the builder, by their place among the calls
CallsOf(method) == {i \in 1..Len(calls) : calls[i].method = method}

\* the last of the calls at the places `made`
LastOf(made) == calls[CHOOSE i \in made : \A j \in made : j <= i]

\* C13: if anchor_checkpoint was called the configured anchor is that of its
\* last call; if only filter_startpoint was called the anchor is the closest
\* checkpoint below the configured filter start height, and not above it.
C13_AnchorFollowsCalls ==
    LET anchors == CallsOf("anchor_checkpoint")
        starts == CallsOf("filter_startpoint")
    IN  /\ anchors # {} => config.header_checkpoint = LastOf(anchors).arg
        /\ (anchors = {} /\ starts # {}) =>
            /\ config.filter_startpoint = LastOf(starts).arg
            /\ config.header_checkpoint =
                    closest_checkpoint_below_height(config.filter_startpoint)
            /\ config.header_checkpoint <= config.filter_startpoint

\* C14: the whitelist of the configuration holds every peer given to add_peer
\* and every peer of every list given to add_peers.
C14_WhitelistIsAdditive ==
    LET listed == {config.white_list[i] : i \in 1..Len(config.white_list)} IN
    /\ \A i \in CallsOf("add_peer") : calls[i].arg \in listed
    /\ \A i \in CallsOf("add_peers") :
            \A k \in 1..Len(calls[i].arg) : calls[i].arg[k] \in listed

\* C15: the header chain is flushed to the store in every step that moves
\* NodeState forward by a phase.
C15_FlushAtEveryPhaseTransition ==
    [][Rank(state') > Rank(state) => last_op'.flushed]_vars

\* C16: a filter header is recorded only in the handling of a FilterHeaders
\* event, and only when at least `quorum` distinct sessions, the sender of
\* that event among them, sent the agreeing value for it; under a quorum
\* above one, one session's event never records it by itself.
C16_RecordedOnQuorum ==
    [][chain'.cf_headers > chain.cf_headers =>
        /\ last_op'.op = "handle_cf_headers"
        /\ Cardinality(contributed \cup {last_op'.peer}) >= chain.quorum
        /\ chain.quorum > 1 => contributed \ {last_op'.peer} # {}]_vars

\* C16, reached: under a quorum of two, the handling of an agreeing
\* FilterHeaders event has recorded the filter header of the tip
C16_Witness ==
    /\ Did("handle_cf_headers")
    /\ last_op.input = "agreeing"
    /\ chain.quorum > 1
    /\ chain.cf_headers = chain.tip
    /\ chain.cf_headers > 0
    /\ contributed = {}

ToSender(m, nonce, message) ==
    IF nonce \in Open(m) THEN {[to |-> nonce, message |-> message]} ELSE {}

\* every session but `nonce` is as it was
OthersUntouched(nonce) == \A n \in Nonces \ {nonce} : node_map'[n] = node_map[n]

\* C18: an empty Headers batch handled while the header chain is not synced
\* sends Disconnect to the session that sent the batch and to no other, ends
\* that session only, and leaves NodeState as it was.
C18_EmptyBatchUnsyncedDisconnectsSender ==
    [][(/\ last_op'.op = "handle_headers"
        /\ last_op'.input = "empty"
        /\ ~is_synced(chain)) =>
            /\ last_op'.response = "Disconnect"
            /\ sent' = ToSender(node_map, last_op'.peer, "Disconnect")
            /\ last_op'.peer \notin Open(node_map')
            /\ OthersUntouched(last_op'.peer)
            /\ state' = state]_vars

\* C18, reached: with the header chain not synced, an empty batch got its
\* sender disconnected while another session stayed open
C18_Witness ==
    /\ Did("handle_headers")
    /\ last_op.input = "empty"
    /\ ~is_synced(chain)
    /\ sent = {[to |-> last_op.peer, message |-> "Disconnect"]}
    /\ node_map[last_op.peer].status = "Closed"
    /\ Open(node_map) \ {last_op.peer} # {}

\* the request that follows in the pipeline of a synced header chain `c`
NextOfPipeline(c) ==
    IF ~is_cf_headers_synced(c) THEN "GetFilterHeaders"
    ELSE IF ~is_filters_synced(c) THEN "GetFilters"
    ELSE NoMessage

\* C19: an empty Headers batch handled while the header chain is synced never
\* disconnects its sender, and is answered with the next request of the
\* pipeline: GetFilterHeaders while filter headers are missing, otherwise
\* GetFilters while filters are missing.
C19_EmptyBatchSyncedIssuesNextRequest ==
    [][(/\ last_op'.op = "handle_headers"
        /\ last_op'.input = "empty"
        /\ is_synced(chain)) =>
            /\ last_op'.response # "Disconnect"
            /\ last_op'.response = NextOfPipeline(chain)]_vars

\* the one command due after a batch left the chain as `c`
DueAfter(c) == IF ~is_synced(c) THEN "GetHeaders" ELSE NextOfPipeline(c)

\* C20: a Headers batch the chain accepts is answered with the one command
\* that strict priority gives (GetHeaders, else GetFilterHeaders, else
\* GetFilters, else nothing); a batch that fails validation is answered with
\* a Warning to the client and Disconnect; the command reaches the sender of
\* the batch and no other session.
C20_AcceptedBatchIssuesOneCommandByPriority ==
    [][last_op'.op = "handle_headers" =>
        /\ last_op'.input \in {"extend", "reorg", "known"} =>
                /\ last_op'.response = DueAfter(chain')
                /\ emitted' = <<>>
        /\ last_op'.input = "invalid" =>
                /\ last_op'.response = "Disconnect"
                /\ emitted' = <<Warning("unexpected header syncing error")>>
                /\ chain' = chain
        /\ sent' = IF last_op'.response = NoMessage THEN {}
                   ELSE ToSender(node_map, last_op'.peer, last_op'.response)
        /\ OthersUntouched(last_op'.peer)]_vars

\* C20, reached: the chain accepted a batch with its headers synced and its
\* filter headers recorded, and the sender alone, of two open sessions, was
\* asked for filters
C20_Witness ==
    /\ Did("handle_headers")
    /\ last_op.input \in {"extend", "reorg", "known"}
    /\ is_synced(chain) /\ is_cf_headers_synced(chain)
    /\ sent = {[to |-> last_op.peer, message |-> "GetFilters"]}
    /\ Open(node_map) \ {last_op.peer} # {}

\* C21: a Version handled in Behind is answered with GetHeaders whatever the
\* service flags; past Behind a peer that lacks COMPACT_FILTERS or NETWORK is
\* answered with a Warning to the client and Disconnect, a peer that has both
\* with GetHeaders; the answer reaches the sender of the Version only.
C21_VersionAnsweredByPhaseAndServices ==
    [][last_op'.op = "handle_version" =>
        LET serves == ServiceFlags \subseteq last_op'.input.service_flags IN
        /\ last_op'.response =
                IF state = "Behind" \/ serves THEN "GetHeaders" ELSE "Disconnect"
        /\ Emits(emitted', Warning("peer does not serve compact filters or blocks"))
                <=> (state # "Behind" /\ ~serves)
        /\ sent' = ToSender(node_map, last_op'.peer, last_op'.response)
        /\ OthersUntouched(last_op'.peer)]_vars

\* C21, reached: past Behind, a peer that serves compact filters and not
\* blocks was disconnected while another session stayed open
C21_Witness ==
    /\ Did("handle_version")
    /\ last_op.before # "Behind"
    /\ last_op.input.service_flags = {"COMPACT_FILTERS"}
    /\ sent = {[to |-> last_op.peer, message |-> "Disconnect"]}
    /\ Open(node_map) \ {last_op.peer} # {}

\* the sessions that have told their version
ReadySessions(m) == {n \in Nonces : m[n].status = "Ready"}

\* C22: an Inv(NewBlocks) event handled past Behind sets NodeState to Behind
\* and issues GetHeaders, the chain and its locators being as they were;
\* handled in Behind it changes nothing and issues no command.
C22_NewBlocksRevertsAndAsksHeaders ==
    [][last_op'.op = "handle_inventory_blocks" =>
        /\ chain' = chain
        /\ node_map' = node_map
        /\ emitted' = <<>>
        /\ IF state = "Behind"
           THEN /\ state' = "Behind"
                /\ last_op'.response = NoMessage
                /\ sent' = {}
           ELSE /\ state' = "Behind"
                /\ last_op'.response = "GetHeaders"
                /\ sent' = {[to |-> n, message |-> "GetHeaders"] :
                                n \in ReadySessions(node_map)}]_vars

\* C22, reached: an Inv(NewBlocks) event reverted a node that was downloading
\* filters, and GetHeaders was issued
C22_Witness ==
    /\ Did("handle_inventory_blocks")
    /\ last_op.before = "FilterHeadersSynced"
    /\ state = "Behind"
    /\ \E n \in Nonces : [to |-> n, message |-> "GetHeaders"] \in sent

\* the GetBlock commands among `commands`
GetBlocks(commands) == {command \in commands : command.message = "GetBlock"}

\* `a` is the beginning of `b`
Prefix(a, b) == Len(a) <= Len(b) /\ SubSeq(b, 1, Len(a)) = a

\* C23: a GetBlock is issued only by the pop_block_queue step of a loop
\* iteration, which comes once per iteration before the receive, issues at
\* most one, for the head of the block queue, and leaves the rest of the queue
\* in its order; no other step takes from the queue or reorders it, and the
\* handling of a Block event issues no GetBlock.
C23_BlockRequestsPacedByLoop ==
    [][/\ GetBlocks(sent') # {} => last_op'.op = "pop_block_queue"
       /\ last_op'.op = "handle_block" => last_op'.response # "GetBlock"
       /\ last_op'.op = "pop_block_queue" =>
            /\ pc = "pop_block_queue" /\ pc' = "recv"
            /\ Cardinality(sent') <= 1
            /\ sent' # {} =>
                    /\ GetBlocks(sent') = sent'
                    /\ last_op'.input = Head(chain.block_queue)
            /\ chain.block_queue # <<>> =>
                    chain'.block_queue = Tail(chain.block_queue)
       /\ last_op'.op # "pop_block_queue" =>
            \/ Prefix(chain.block_queue, chain'.block_queue)
            \/ Prefix(chain'.block_queue, chain.block_queue)]_vars

\* C23, reached: two blocks are queued, the loop has asked for the first, and
\* the second waits for the next iteration
C23_Witness ==
    /\ Did("pop_block_queue")
    /\ GetBlocks(sent) # {}
    /\ last_op.input = 1
    /\ chain.block_queue = <<2>>

\* the followed session took the message at the head of its reader's channel
HandlesHead(type) ==
    /\ session.pos = "loop"
    /\ session.rx # <<>>
    /\ Head(session.rx).type = type
    /\ session'.last.op = "handle_peer_message"

\* C24: the handling of a Ping(n) writes a Pong with the same n and sends
\* nothing to the Node, the handling of a Pong or a Verack writes nothing and
\* sends nothing, and the peer-event channel holds Version, Addr, Headers and
\* Disconnect events only.
C24_KeepaliveIsLocal ==
    [][/\ HandlesHead("Ping") =>
            /\ session'.last.wrote.message = "Pong"
            /\ session'.last.wrote.n = Head(session.rx).n
            /\ session'.pos = "loop"
            /\ session'.events = session.events
       /\ (HandlesHead("Pong") \/ HandlesHead("Verack")) =>
            /\ session'.last.wrote = NoWrite
            /\ session'.pos = "loop"
            /\ session'.events = session.events
       /\ \A i \in 1..Len(session'.events) :
            session'.events[i].message.type
                \in {"Version", "Addr", "Headers", "Disconnect"}]_vars

\* C24, reached: the session has answered Ping(2) with Pong(2)
C24_Witness ==
    /\ session.last.op = "handle_peer_message"
    /\ session.last.type = "Ping"
    /\ session.last.n = 2
    /\ session.last.wrote = write("Pong", 2, TRUE)
    /\ ~session.last.forwarded

\* C25: the first message the session writes is VERSION; VERACK is written
\* only in the handling of a VERSION of the peer, once; and a command of the
\* Node is written only after the VERACK of the peer was handled.
C25_HandshakeOrdering ==
    [][LET wrote == session'.last.wrote.message IN
       /\ wrote # "None" => (wrote = "Version" <=> session.pos = "connect")
       /\ wrote = "Verack" =>
            /\ session'.last.type = "Version"
            /\ session.held.type = "Version"
       /\ wrote \in {"GetHeaders", "GetAddr"} => session.greeted]_vars

SessionWaits ==
    /\ session.pos = "sending"
    /\ session.node # "gone"
    /\ Len(session.events) = MaxInFlight

\* the Node waits at its send to the session for room in the request channel
NodeWaits ==
    /\ session.node = "sending"
    /\ session.pos # "returned"
    /\ Len(session.requests) = MaxRequests

\* C27: the session and the Node never wait for each other: the session at its
\* send into the full event channel while the Node is at its send into the
\* full request channel of that session.
C27_NoMutualWait == ~(SessionWaits /\ NodeWaits)

\* the predicates of the Chain hold, no event of a peer waits in the channel,
\* and a session is ready, so that run needs no new peer
Quiet ==
    /\ is_synced(chain)
    /\ is_cf_headers_synced(chain)
    /\ is_filters_synced(chain)
    /\ block_queue_empty(chain)
    /\ mrx = <<>>
    /\ live(node_map) >= 1

C29_DisconnectIsLastEvent ==
    [][/\ (session'.last.op = "sent" /\ session'.last.type = "Disconnect") =>
            /\ session'.pos = "returned"
            /\ session'.last.wrote = NoWrite
       /\ session.pos = "returned" =>
            /\ session'.pos = "returned"
            /\ \E taken \in 0..Len(session.events) :
                    session'.events =
                        SubSeq(session.events, taken + 1, Len(session.events))
            /\ session'.last.wrote = NoWrite
            /\ session'.rx = session.rx
       /\ (session'.last.op = "main_thread_request"
                /\ session'.last.type = "Disconnect") =>
            /\ session'.pos = "returned"
            /\ session'.events = session.events
            /\ ~session'.last.forwarded
            /\ session'.last.wrote = NoWrite]_vars

\* the Node takes the Disconnect of a session that has left its loop with
\* messages of its reader unhandled
C29_Witness ==
    /\ session.pos = "returned"
    /\ session.last.op = "recv"
    /\ session.last.type = "Disconnect"
    /\ session.rx # <<>>
    /\ session.events = <<>>

\* the reader task has ended with nothing left to handle, and the Node has
\* dropped its sender with no command left to take
Orphaned ==
    /\ session.pos = "loop"
    /\ session.reader = "ended"
    /\ session.rx = <<>>
    /\ session.node = "gone"
    /\ session.requests = <<>>

\* C30: connect returns from its loop only in the handling of a Disconnect, of
\* the reader or of the Node; a failed write, a failed send to the Node and a
\* closed channel leave the session in its loop, and an orphaned session stays
\* orphaned.
C30_LoopLeftOnDisconnectOnly ==
    [][/\ (session.pos \in {"loop", "sending"} /\ session'.pos = "returned") =>
            /\ session'.last.op \in {"sent", "main_thread_request"}
            /\ session'.last.type = "Disconnect"
       /\ (session.pos \in {"loop", "sending"} /\ ~session'.last.wrote.ok) =>
            session'.pos = "loop"
       /\ session'.last.op \in {"send_failed", "continue"} => session'.pos = "loop"
       /\ Orphaned => Orphaned']_vars

\* the orphaned session goes round its loop
C30_Witness == Orphaned /\ session.last.op = "continue" /\ session.reads > 0

\* the greater of two heights
Max(a, b) == IF a >= b THEN a ELSE b

\* C31: best_known_height starts at the height of the loaded chain and never
\* decreases; only handle_version changes it, and not when it answers
\* Disconnect: it becomes the greater of its value and the advertised height
\* read as an unsigned value, a negative height wrapping round.
C31_BestKnownHeightNeverDecreases ==
    /\ pc = "start" => best_known_height = chain.tip
    /\ [][/\ best_known_height' >= best_known_height
          /\ best_known_height' # best_known_height =>
                /\ last_op'.op = "handle_version"
                /\ last_op'.response # "Disconnect"
          /\ last_op'.op = "handle_version" =>
                LET advertised == last_op'.input.height
                    unsigned == IF advertised >= 0 THEN advertised
                                ELSE advertised + 2^HeightBits
                IN  best_known_height' =
                        IF last_op'.response = "Disconnect"
                        THEN best_known_height
                        ELSE Max(best_known_height, unsigned)]_vars

\* a peer advertised the height -1 to a node restarted over a loaded chain,
\* and the Node now holds the greatest unsigned height
C31_Witness ==
    /\ last_op.op = "handle_version"
    /\ last_op.input.height = -1
    /\ last_op.response = "GetHeaders"
    /\ chain.tip = MaxLoaded
    /\ best_known_height = 2^HeightBits - 1

\* a step of run that selected a peer with success
Selected(source) ==
    /\ last_op'.op = "rehydrate"
    /\ last_op'.needed
    /\ last_op'.selection.error = "None"
    /\ last_op'.selection.peer.source \in source

\* C32: the whitelist changes only by the selection of its last entry, which
\* removes that entry; it never grows; and with the whitelist empty every peer
\* selected comes from the peer store or from DNS.
C32_WhitelistEntryDispatchedOnce ==
    [][/\ white_list' # white_list => Selected({"whitelist"})
       /\ Selected({"whitelist"}) =>
            /\ white_list # <<>>
            /\ last_op'.selection.peer.addr = white_list[Len(white_list)]
            /\ white_list' = SubSeq(white_list, 1, Len(white_list) - 1)
       /\ Len(white_list') <= Len(white_list)
       /\ (white_list = <<>> /\ Selected({"whitelist", "cpf", "new", "dns"})) =>
            /\ Selected({"cpf", "new", "dns"})
            /\ white_list' = <<>>]_vars

\* both peers of the whitelist were dispatched, and the next peer comes from
\* the store or from DNS
C32_Witness ==
    /\ white_list = <<>>
    /\ last_op.op = "rehydrate"
    /\ last_op.needed
    /\ last_op.selection.error = "None"
    /\ last_op.selection.peer.source \in {"new", "dns"}
    /\ Len(config.white_list) = 2

\* the handlers of run that are said to leave NodeState as it is
FramedHandlers ==
    {"handle_version", "handle_new_addrs", "handle_headers", "handle_cf_headers",
     "handle_filter", "handle_block", "disconnect"}

\* C33: NodeState changes only in advance_state and in the handler of
\* Inv(NewBlocks); the handlers of Version, Addr, Headers, FilterHeaders,
\* Filter, Block and Disconnect leave it as it is.  A Block is answered with a
\* command in Behind only, with Disconnect; it is scanned in FiltersSynced
\* only; in every other state nothing is done with it.
C33_HandlersLeaveNodeState ==
    [][/\ state' # state =>
            last_op'.op \in {"advance_state", "handle_inventory_blocks"}
       /\ last_op'.op \in FramedHandlers => state' = state
       /\ last_op'.op = "handle_block" =>
            /\ last_op'.response =
                    IF state = "Behind" THEN "Disconnect" ELSE NoMessage
            /\ last_op'.scanned <=> state = "FiltersSynced"
            /\ state = "Behind" =>
                    sent' = broadcast(node_map, "Disconnect").sent
            /\ state # "Behind" => sent' = {} /\ node_map' = node_map
            /\ state \notin {"Behind", "FiltersSynced"} =>
                    /\ emitted' = <<>>
                    /\ chain' = chain
                    /\ requested' = requested]_vars

\* a block was scanned in FiltersSynced, and the phase is as it was
C33_Witness ==
    /\ last_op.op = "handle_block"
    /\ last_op.scanned
    /\ last_op.before = "FiltersSynced"
    /\ state = "FiltersSynced"

====
